---- MODULE Spec2Model ----
(***************************************************************************)
(* A model of publish.py, the publishing script of sotoalt.dev.            *)
(*                                                                         *)
(* Text is a sequence of tokens.  A token of source text is one character  *)
(* ("a", "<", "-", ...).  Markup that the program itself emits is one      *)
(* token per emitted fragment ("<ul>", "&lt;", "<pre><code>", ...), so the *)
(* generated HTML is the concatenation of the tokens and a source          *)
(* character that reaches the output unescaped is still visible as the     *)
(* one-character token it was in the source.                               *)
(***************************************************************************)
EXTENDS Integers, Sequences, FiniteSets, TLC

VARIABLES
    \* markdown_to_html (src/publish.py 51-130)
    lines, i, html_lines, in_list, in_code, code_block, md_pc, md_ret,
    \* parse_frontmatter (src/publish.py 33-48)
    fm_lines, fm_k, frontmatter, fm_pc,
    \* the site's files: posts/*.md and thoughts/*.html
    posts_dir, thoughts_dir,
    \* get_all_posts (src/publish.py 291-335)
    posts, seen_slugs, md_left, html_left, gp_pc, gp_ret,
    \* one run of the command (main, src/publish.py 416-453)
    argv, template_exists, index_file, feed_file, today,
    run_pc, exit_status, stdout, rb_k,
    \* what the run has written, and the files as they were when it began
    published, written, fs0

mdVars == <<lines, i, html_lines, in_list, in_code, code_block, md_pc, md_ret>>

fmVars == <<fm_lines, fm_k, frontmatter, fm_pc>>

dirVars == <<posts_dir, thoughts_dir>>

gpVars == <<posts, seen_slugs, md_left, html_left, gp_pc, gp_ret>>

runVars == <<argv, template_exists, index_file, feed_file, today,
             run_pc, exit_status, stdout, rb_k, published, written, fs0>>

vars == <<mdVars, fmVars, dirVars, gpVars, runVars>>

----------------------------------------------------------------------------
(* Bounds of the model *)

\* longest markdown body, in lines
MaxLines == 4

\* longest front-matter value, in characters, and longest header, in lines
MaxValueLen == 3
MaxHeaderLines == 2

\* most files of posts/ and of thoughts/ when get_all_posts is run alone
MaxMd == 2
MaxHtml == 2

\* most files of posts/ and of thoughts/ when a run of the command begins
RunMaxMd == 2
RunMaxHtml == 1

----------------------------------------------------------------------------
(* Constants of the program *)

\* posts[:20] in generate_rss
FeedLimit == 20

----------------------------------------------------------------------------
(* str helpers *)

Max(S) == CHOOSE x \in S : \A y \in S : y <= x

\* str.startswith(p)
StartsWith(s, p) == Len(s) >= Len(p) /\ SubSeq(s, 1, Len(p)) = p

\* s[n:]
From(s, n) == SubSeq(s, n + 1, Len(s))

RECURSIVE LStripChar(_, _)
LStripChar(s, c) ==
    IF s # <<>> /\ Head(s) = c THEN LStripChar(Tail(s), c) ELSE s

RECURSIVE RStripChar(_, _)
RStripChar(s, c) ==
    IF s # <<>> /\ s[Len(s)] = c THEN RStripChar(SubSeq(s, 1, Len(s) - 1), c) ELSE s

\* str.strip(c): every leading and every trailing c is removed
StripChar(s, c) == RStripChar(LStripChar(s, c), c)

\* str.strip(): whitespace is the one character " " of the alphabet
Strip(s) == StripChar(s, " ")

RECURSIVE Join(_, _)
\* sep.join(parts)
Join(parts, sep) ==
    IF parts = <<>> THEN <<>>
    ELSE IF Len(parts) = 1 THEN parts[1]
    ELSE parts[1] \o sep \o Join(Tail(parts), sep)

\* html.escape of one character (quote=True)
EscapeChar(c) ==
    CASE c = "&" -> "&amp;"
      [] c = "<" -> "&lt;"
      [] c = ">" -> "&gt;"
      [] c = "\"" -> "&quot;"
      [] c = "'" -> "&#x27;"
      [] OTHER -> c

\* html.escape(text)
Escape(s) == [k \in 1..Len(s) |-> EscapeChar(s[k])]

----------------------------------------------------------------------------
(* process_inline *)

\* the backtick character (a TLA+ string cannot hold it)
BT == "bt"

\* length of the longest prefix of s holding no token c
RECURSIVE RunLen(_, _)
RunLen(s, c) ==
    IF s = <<>> \/ Head(s) = c THEN 0 ELSE 1 + RunLen(Tail(s), c)

RECURSIVE SubSpan(_, _, _, _)
\* re.sub(D ([^c]+) D, open \1 close, s), c the character the delimiter D is made of
SubSpan(s, D, open, close) ==
    IF s = <<>> THEN <<>>
    ELSE LET c    == D[1]
             rest == From(s, Len(D))
             n    == RunLen(rest, c)
         IN IF StartsWith(s, D) /\ n >= 1 /\ StartsWith(From(rest, n), D)
            THEN <<open>> \o SubSeq(rest, 1, n) \o <<close>>
                 \o SubSpan(From(rest, n + Len(D)), D, open, close)
            ELSE <<Head(s)>> \o SubSpan(Tail(s), D, open, close)

RECURSIVE SubLinks(_)
\* re.sub(\[([^\]]+)\]\(([^)]+)\), <a href="\2">\1</a>, s)
SubLinks(s) ==
    IF s = <<>> THEN <<>>
    ELSE LET t1 == Tail(s)
             n  == RunLen(t1, "]")
             t2 == From(t1, n)
             u  == From(t2, 2)
             m  == RunLen(u, ")")
         IN IF /\ Head(s) = "[" /\ n >= 1
               /\ StartsWith(t2, <<"]", "(">>)
               /\ m >= 1 /\ Len(u) > m
            THEN <<"<a href=\"">> \o SubSeq(u, 1, m) \o <<"\">">>
                 \o SubSeq(t1, 1, n) \o <<"</a>">> \o SubLinks(From(u, m + 1))
            ELSE <<Head(s)>> \o SubLinks(t1)

RECURSIVE ReplaceDashes(_)
\* text.replace("--", "&mdash;")
ReplaceDashes(s) ==
    IF s = <<>> THEN <<>>
    ELSE IF StartsWith(s, <<"-", "-">>)
         THEN <<"&mdash;">> \o ReplaceDashes(From(s, 2))
         ELSE <<Head(s)>> \o ReplaceDashes(Tail(s))

process_inline(text) ==
    LET t0 == Escape(text)
        t1 == SubSpan(t0, <<BT>>, "<code>", "</code>")
        t2 == SubSpan(t1, <<"*", "*">>, "<strong>", "</strong>")
        t3 == SubSpan(t2, <<"_", "_">>, "<strong>", "</strong>")
        t4 == SubSpan(t3, <<"*">>, "<em>", "</em>")
        t5 == SubSpan(t4, <<"_">>, "<em>", "</em>")
        t6 == SubLinks(t5)
    IN ReplaceDashes(t6)

----------------------------------------------------------------------------
(* markdown_to_html *)

FENCE == <<BT, BT, BT>>

\* the lines a body is made of
LinePool ==
    { <<>>,
      <<"a">>,
      <<"-", " ", "<">>,
      <<" ", "-", " ", "a">>,
      <<"#", " ", "a">>,
      <<"#", "#", " ", BT, "a", BT>>,
      <<"#", "#", "#", " ", ">">>,
      <<"-", "-", "-">>,
      <<">", " ", "*", "<", "*">>,
      FENCE,
      <<"!", "[", "<", "]", "(", "a", ")">> }

Bodies == UNION { [1..n -> LinePool] : n \in 1..MaxLines }

\* lines[k] of the code, which counts from 0
Line(k) == lines[k + 1]

IsBullet(line) ==
    StartsWith(Strip(line), <<"-", " ">>) \/ StartsWith(Strip(line), <<"*", " ">>)

IsRule(line) ==
    Strip(line) \in { <<"-", "-", "-">>, <<"*", "*", "*">>, <<"_", "_", "_">> }

\* the p of re.match(r'!\[(.*)\]\((.*)\)', line): where the greedy alt group ends
ImageSplits(line) ==
    { p \in 3..Len(line) :
        /\ line[p] = "]"
        /\ p + 1 <= Len(line) /\ line[p + 1] = "("
        /\ \E q \in (p + 2)..Len(line) : line[q] = ")" }

IsImage(line) ==
    StartsWith(line, <<"!", "[">>) /\ ImageSplits(line) # {}

ImageAlt(line) == SubSeq(line, 3, Max(ImageSplits(line)) - 1)

ImageSrc(line) ==
    LET p == Max(ImageSplits(line))
        q == Max({ k \in (p + 2)..Len(line) : line[k] = ")" })
    IN SubSeq(line, p + 2, q - 1)

\* the branch of the if/elif chain of lines 85-122 that a line takes
Classify(line) ==
    IF StartsWith(line, <<"#", " ">>) THEN "h1"
    ELSE IF StartsWith(line, <<"#", "#", " ">>) THEN "h2"
    ELSE IF StartsWith(line, <<"#", "#", "#", " ">>) THEN "h3"
    ELSE IF IsRule(line) THEN "rule"
    ELSE IF IsBullet(line) THEN "item"
    ELSE IF StartsWith(line, <<">", " ">>) THEN "quote"
    ELSE IF IsImage(line) THEN "image"
    ELSE IF Strip(line) = <<>> THEN "blank"
    ELSE "para"

\* the prefixes that end a paragraph (line 119)
ParaStops ==
    { <<"#">>, <<"-">>, <<"*">>, <<">">>, FENCE, <<"!", "[">>,
      <<"-", "-", "-">>, <<"*", "*", "*">>, <<"_", "_", "_">> }

Absorbs(line) ==
    Strip(line) # <<>> /\ \A p \in ParaStops : ~StartsWith(line, p)

RECURSIVE ParaEnd(_)
\* the value of i when the while loop of lines 119-121 ends, entered with i = k
ParaEnd(k) ==
    IF k + 1 < Len(lines) /\ Absorbs(Line(k + 1)) THEN ParaEnd(k + 1) ELSE k

\* html_lines and in_list after lines 80-82
ListClosing(line) == in_list /\ ~IsBullet(line)
Closed(line) == IF ListClosing(line) THEN Append(html_lines, <<"</ul>">>) ELSE html_lines
StillInList(line) == in_list /\ ~ListClosing(line)

Reading == md_pc = "loop" /\ i < Len(lines)

\* lines 64-72
MdFence ==
    /\ Reading
    /\ StartsWith(Line(i), FENCE)
    /\ IF in_code
       THEN /\ html_lines' = Append(html_lines,
                   <<"<pre><code>">> \o Escape(Join(code_block, <<"\n">>))
                       \o <<"</code></pre>">>)
            /\ code_block' = <<>>
            /\ in_code' = FALSE
       ELSE /\ in_code' = TRUE
            /\ UNCHANGED <<html_lines, code_block>>
    /\ i' = i + 1
    /\ UNCHANGED <<lines, in_list, md_pc, md_ret, fmVars, dirVars, gpVars, runVars>>

\* MdCodeLine with the h1 test of lines 85-88 made before the in_code test
MdCodeLineSkipsH1 ==
    /\ Reading
    /\ ~StartsWith(Line(i), FENCE)
    /\ in_code
    /\ code_block' = IF StartsWith(Line(i), <<"#", " ">>)
                     THEN code_block ELSE Append(code_block, Line(i))
    /\ i' = i + 1
    /\ UNCHANGED <<lines, html_lines, in_list, in_code, md_pc, md_ret, fmVars, dirVars, gpVars, runVars>>

\* lines 74-77
MdCodeLine ==
    /\ Reading
    /\ ~StartsWith(Line(i), FENCE)
    /\ in_code
    /\ code_block' = Append(code_block, Line(i))
    /\ i' = i + 1
    /\ UNCHANGED <<lines, html_lines, in_list, in_code, md_pc, md_ret, fmVars, dirVars, gpVars, runVars>>

\* a line outside code that takes branch kind of the if/elif chain
Block(kind) ==
    /\ Reading
    /\ ~StartsWith(Line(i), FENCE)
    /\ ~in_code
    /\ Classify(Line(i)) = kind

\* one pass of the loop that appends the block b and leaves the list state as ls
Emit(b, ls) ==
    /\ html_lines' = Append(Closed(Line(i)), b)
    /\ in_list' = ls
    /\ i' = i + 1
    /\ UNCHANGED <<lines, in_code, code_block, md_pc, md_ret, fmVars, dirVars, gpVars, runVars>>

\* lines 85-88
MdH1 ==
    /\ Block("h1")
    /\ html_lines' = Closed(Line(i))
    /\ in_list' = StillInList(Line(i))
    /\ i' = i + 1
    /\ UNCHANGED <<lines, in_code, code_block, md_pc, md_ret, fmVars, dirVars, gpVars, runVars>>

\* lines 89-90
MdH2 ==
    /\ Block("h2")
    /\ Emit(<<"<h2>">> \o process_inline(From(Line(i), 3)) \o <<"</h2>">>,
            StillInList(Line(i)))

\* lines 91-92
MdH3 ==
    /\ Block("h3")
    /\ Emit(<<"<h3>">> \o process_inline(From(Line(i), 4)) \o <<"</h3>">>,
            StillInList(Line(i)))

\* lines 94-95
MdRule ==
    /\ Block("rule")
    /\ Emit(<<"<hr>">>, StillInList(Line(i)))

\* lines 97-102
MdItem ==
    /\ Block("item")
    /\ html_lines' =
          (IF in_list THEN html_lines ELSE Append(html_lines, <<"<ul>">>))
          \o << <<"<li>">> \o process_inline(From(Strip(Line(i)), 2)) \o <<"</li>">> >>
    /\ in_list' = TRUE
    /\ i' = i + 1
    /\ UNCHANGED <<lines, in_code, code_block, md_pc, md_ret, fmVars, dirVars, gpVars, runVars>>

\* lines 104-105
MdQuote ==
    /\ Block("quote")
    /\ Emit(<<"<blockquote><p>">> \o process_inline(From(Line(i), 2))
                \o <<"</p></blockquote>">>,
            StillInList(Line(i)))

\* lines 107-111
MdImage ==
    /\ Block("image")
    /\ Emit(<<"<figure><img src=\"">> \o ImageSrc(Line(i)) \o <<"\" alt=\"">>
                \o ImageAlt(Line(i)) \o <<"\"><figcaption>">> \o ImageAlt(Line(i))
                \o <<"</figcaption></figure>">>,
            StillInList(Line(i)))

\* lines 113-114
MdBlank ==
    /\ Block("blank")
    /\ Emit(<<>>, StillInList(Line(i)))

\* lines 116-122
MdParagraph ==
    /\ Block("para")
    /\ LET e == ParaEnd(i)
           para_lines == [k \in 1..(e - i + 1) |-> Line(i + k - 1)]
       IN /\ html_lines' = Append(Closed(Line(i)),
                 <<"<p>">> \o process_inline(Join(para_lines, <<" ">>)) \o <<"</p>">>)
          /\ i' = e + 1
    /\ in_list' = StillInList(Line(i))
    /\ UNCHANGED <<lines, in_code, code_block, md_pc, md_ret, fmVars, dirVars, gpVars, runVars>>

\* lines 126-130
MdReturn ==
    /\ md_pc = "loop"
    /\ i >= Len(lines)
    /\ html_lines' = IF in_list THEN Append(html_lines, <<"</ul>">>) ELSE html_lines
    /\ md_ret' = Join(html_lines', <<"\n                ">>)
    /\ md_pc' = "done"
    /\ UNCHANGED <<lines, i, in_list, in_code, code_block, fmVars, dirVars, gpVars, runVars>>

MdNext ==
    \/ MdFence \/ MdCodeLine \/ MdH1 \/ MdH2 \/ MdH3 \/ MdRule \/ MdItem
    \/ MdQuote \/ MdImage \/ MdBlank \/ MdParagraph \/ MdReturn

----------------------------------------------------------------------------
(* Properties of markdown_to_html *)

\* C3: no "<" or ">" character of the source text is in the output unescaped,
\* whatever block its line was classified as.
C3_NoRawAngle ==
    /\ \A k \in 1..Len(html_lines) :
          \A j \in 1..Len(html_lines[k]) : html_lines[k][j] \notin {"<", ">"}
    /\ \A j \in 1..Len(md_ret) : md_ret[j] \notin {"<", ">"}

\* the output block at k lies inside a list that is open there
InsideList(k) ==
    \E o \in 1..(k - 1) :
        /\ html_lines[o] = <<"<ul>">>
        /\ \A m \in (o + 1)..(k - 1) : html_lines[m] # <<"</ul>">>

\* C4: between a <ul> and its </ul> the output holds only <li> elements: once a
\* list is open, nothing a non-bullet line produces is emitted before the list's
\* closing tag.
C4_ListHoldsOnlyItems ==
    \A k \in 1..Len(html_lines) :
        (InsideList(k) /\ html_lines[k] # <<"</ul>">>)
            => (html_lines[k] # <<>> /\ html_lines[k][1] = "<li>")

\* the fence lines among the first k lines of the body
FencesBefore(k) ==
    { j \in 0..(k - 1) : Len(Line(j)) >= 3 /\ SubSeq(Line(j), 1, 3) = <<BT, BT, BT>> }

\* the n-th fence line of the body
NthFence(n) ==
    CHOOSE j \in FencesBefore(Len(lines)) :
        Cardinality({ m \in FencesBefore(Len(lines)) : m < j }) = n - 1

\* the preformatted block of the lines between the fence lines o and c
PreOf(o, c) ==
    <<"<pre><code>">>
        \o Escape(Join([k \in 1..(c - o - 1) |-> Line(o + k)], <<"\n">>))
        \o <<"</code></pre>">>

PreBlocks == SelectSeq(html_lines, LAMBDA b : b # <<>> /\ b[1] = "<pre><code>")

C5_Buffered ==
    LET F == FencesBefore(i)
    IN /\ in_code <=> (Cardinality(F) % 2 = 1)
       /\ in_code => code_block = [k \in 1..(i - Max(F) - 1) |-> Line(Max(F) + k)]
       /\ ~in_code => code_block = <<>>
       /\ Len(PreBlocks) = Cardinality(F) \div 2
       /\ \A n \in 1..Len(PreBlocks) :
             PreBlocks[n] = PreOf(NthFence(2 * n - 1), NthFence(2 * n))

C5_Step ==
    (in_code /\ Reading) =>
        /\ in_list' = in_list
        /\ i' = i + 1
        /\ IF i \in FencesBefore(i + 1)
           THEN html_lines' = Append(html_lines, PreOf(Max(FencesBefore(i)), i))
           ELSE html_lines' = html_lines /\ code_block' = Append(code_block, Line(i))

\* C5: every line between an opening fence and its closing fence is buffered
\* verbatim and emitted, in order and only HTML-escaped, in the one preformatted
\* block made at the closing fence; reading it emits nothing else, drops nothing
\* and leaves the list state alone.
C5_CodeBlockOpaque == [](C5_Buffered) /\ [][C5_Step]_vars

\* a code block of a dropped-heading line and a bullet line has both, in order
C5_Witness ==
    /\ md_pc = "done"
    /\ lines = << FENCE, <<"#", " ", "a">>, <<"-", " ", "<">>, FENCE >>
    /\ html_lines =
          << <<"<pre><code>", "#", " ", "a", "\n", "-", " ", "&lt;", "</code></pre>">> >>

\* a line at which the claim says a paragraph stops
C8_Stops(line) ==
    \/ Strip(line) = <<>>
    \/ \E p \in { <<"#">>, <<"-">>, <<"*">>, <<">">>, <<BT, BT, BT>>, <<"!", "[">> } :
          StartsWith(line, p)
    \/ Strip(line) \in { <<"-", "-", "-">>, <<"*", "*", "*">>, <<"_", "_", "_">> }
    \/ StartsWith(Strip(line), <<"-", " ">>)
    \/ StartsWith(Strip(line), <<"*", " ">>)

\* C8: the lines a paragraph absorbs hold no blank line, no line with a
\* block-marker prefix, no rule line and no bullet line (trimmed content).
C8_ParagraphStopsAtBlocks ==
    [][ (md_pc = "loop" /\ i' > i + 1)
            => \A j \in (i + 1)..(i' - 1) : ~C8_Stops(Line(j)) ]_vars

\* C10: at the end of the input the code buffer is empty.
C10_BufferEmptyAtEnd == md_pc = "done" => code_block = <<>>

----------------------------------------------------------------------------

(* parse_frontmatter: the loop over the header lines *)

QuoteChars == {"\"", "'"}

HeaderValues ==
    UNION { [1..n -> {"a", " "} \cup QuoteChars] : n \in 0..MaxValueLen }

\* the header lines: key "t" with a value, or a line without ":"
HeaderLinePool == { <<"t", ":">> \o v : v \in HeaderValues } \cup { <<"t", " ", "a">> }

Headers == UNION { [1..n -> HeaderLinePool] : n \in 1..MaxHeaderLines }

HasColon(line) == \E k \in 1..Len(line) : line[k] = ":"

\* line.split(":", 1)
ColonAt(line) == CHOOSE k \in 1..Len(line) : line[k] = ":" /\ \A m \in 1..(k - 1) : line[m] # ":"
KeyOf(line) == Strip(SubSeq(line, 1, ColonAt(line) - 1))
RawValueOf(line) == From(line, ColonAt(line))

\* value.strip().strip('"').strip("'")  (line 46)
CleanValue(value) == StripChar(StripChar(Strip(value), "\""), "'")

\* lines 43-46, a line with ":"
FmStore ==
    /\ fm_pc = "loop"
    /\ fm_k < Len(fm_lines)
    /\ HasColon(fm_lines[fm_k + 1])
    /\ LET line == fm_lines[fm_k + 1]
           key  == KeyOf(line)
       IN frontmatter' =
             [k \in (DOMAIN frontmatter) \cup {key} |->
                 IF k = key THEN CleanValue(RawValueOf(line)) ELSE frontmatter[k]]
    /\ fm_k' = fm_k + 1
    /\ UNCHANGED <<fm_lines, fm_pc, mdVars, dirVars, gpVars, runVars>>

\* lines 43-44, a line without ":"
FmIgnore ==
    /\ fm_pc = "loop"
    /\ fm_k < Len(fm_lines)
    /\ ~HasColon(fm_lines[fm_k + 1])
    /\ fm_k' = fm_k + 1
    /\ UNCHANGED <<fm_lines, frontmatter, fm_pc, mdVars, dirVars, gpVars, runVars>>

\* line 48
FmReturn ==
    /\ fm_pc = "loop"
    /\ fm_k >= Len(fm_lines)
    /\ fm_pc' = "done"
    /\ UNCHANGED <<fm_lines, fm_k, frontmatter, mdVars, dirVars, gpVars, runVars>>

FmNext == FmStore \/ FmIgnore \/ FmReturn

\* the value the claim describes: trimmed, and one pair of identical quotes removed
C6_OneLayer(value) ==
    LET w == Strip(value)
    IN IF Len(w) >= 2 /\ w[1] \in QuoteChars /\ w[Len(w)] = w[1]
       THEN SubSeq(w, 2, Len(w) - 1)
       ELSE w

\* C6: the value stored for a header line is the trimmed value less exactly one
\* layer of matching quotes; unmatched or inner quotes are kept.
C6_OneQuoteLayer ==
    (fm_k >= 1 /\ HasColon(fm_lines[fm_k]))
        => frontmatter[KeyOf(fm_lines[fm_k])] = C6_OneLayer(RawValueOf(fm_lines[fm_k]))

----------------------------------------------------------------------------
(* Dates, file names and files *)

(* A date string "YYYY-MM-DD" is the tuple <<YYYY, MM, DD>> of its zero-padded *)
(* fields, a display date "YYYY.MM" the tuple <<YYYY, MM>>, the empty string   *)
(* <<>>.  Comparing the strings is comparing the tuples lexicographically.     *)

D1 == <<2024, 1, 15>>
D2 == <<2024, 3, 1>>

\* "1970-01-01" (lines 279 and 311)
SENTINEL == <<1970, 1, 1>>

RECURSIVE StrLess(_, _)
\* a < b on strings
StrLess(a, b) ==
    IF b = <<>> THEN FALSE
    ELSE IF a = <<>> THEN TRUE
    ELSE IF a[1] # b[1] THEN a[1] < b[1]
    ELSE StrLess(Tail(a), Tail(b))

\* strptime(date_str, "%Y-%m-%d").strftime("%Y.%m"), or date_str on ValueError
format_date_display(date_str) ==
    IF Len(date_str) = 3 THEN <<date_str[1], date_str[2]>> ELSE date_str

\* dict.get(key, default)
Get(d, key, default) == IF key \in DOMAIN d THEN d[key] ELSE default

\* slug.replace("-", " ")
DashesToSpaces(slug) == [k \in 1..Len(slug) |-> IF slug[k] = "-" THEN " " ELSE slug[k]]

(* A markdown file name is prefix "-" rest ".md" when it has a date prefix, *)
(* and rest ".md" when it has none.                                         *)
MdNames == [prefix : {<<>>, D1}, rest : {<<"x">>, <<"y">>}]

\* the front matter of a post: no date key, an empty date, or a date
FrontMatters ==
    { [k \in {} |-> <<>>], [k \in {"date"} |-> <<>>], [k \in {"date"} |-> D2] }

MdFiles == [name : MdNames, fm : FrontMatters]

(* A published page: its file stem and the display date its                *)
(* <p class="meta"> element holds (<<>>: the element has no YYYY.MM date). *)
HtmlFiles == [stem : {<<"x">>, <<"z">>}, meta : {<<>>, <<2024, 3>>}]

\* the directories of at most n files, no two of one name
MdDirs(n) ==
    { S \in SUBSET MdFiles :
        /\ Cardinality(S) <= n
        /\ \A f, g \in S : f.name = g.name => f = g }

HtmlDirs(n) ==
    { S \in SUBSET HtmlFiles :
        /\ Cardinality(S) <= n
        /\ \A f, g \in S : f.stem = g.stem => f = g }

\* Path(filename).stem
Stem(name) ==
    IF name.prefix = <<>> THEN name.rest ELSE <<name.prefix, "-">> \o name.rest

\* get_slug_from_filename: re.match(r'\d{4}-\d{2}-\d{2}-(.+)', stem)
get_slug_from_filename(name) ==
    IF name.prefix # <<>> /\ name.rest # <<>> THEN name.rest ELSE Stem(name)

----------------------------------------------------------------------------
(* get_all_posts *)

\* lines 299-321: the record of a markdown file
MdRecord(f) ==
    LET slug == get_slug_from_filename(f.name)
        date == Get(f.fm, "date", <<>>)
    IN [ title       |-> Get(f.fm, "title", DashesToSpaces(slug)),
         date        |-> IF date # <<>> THEN date
                         ELSE IF f.name.prefix # <<>> THEN f.name.prefix
                         ELSE SENTINEL,
         description |-> Get(f.fm, "description", <<>>),
         slug        |-> slug,
         file        |-> [dir |-> "posts", name |-> f.name],
         source      |-> "markdown" ]

\* extract_metadata_from_html, lines 260-288
extract_metadata_from_html(h) ==
    [ title       |-> DashesToSpaces(h.stem),
      date        |-> IF Len(h.meta) = 2 THEN <<h.meta[1], h.meta[2], 1>> ELSE SENTINEL,
      description |-> <<>>,
      slug        |-> h.stem,
      file        |-> [dir |-> "thoughts", name |-> [prefix |-> <<>>, rest |-> h.stem]],
      source      |-> "html" ]

RECURSIVE InsertDesc(_, _, _)
\* p put before the first record that must follow it; ties = TRUE puts it before
\* the records of its own date as well
InsertDesc(sorted, p, ties) ==
    IF sorted = <<>> THEN <<p>>
    ELSE IF \/ StrLess(Head(sorted).date, p.date)
            \/ (ties /\ Head(sorted).date = p.date)
         THEN <<p>> \o sorted
         ELSE <<Head(sorted)>> \o InsertDesc(Tail(sorted), p, ties)

RECURSIVE SortDesc(_, _)
SortDesc(ps, ties) ==
    IF ps = <<>> THEN <<>>
    ELSE InsertDesc(SortDesc(SubSeq(ps, 1, Len(ps) - 1), ties), ps[Len(ps)], ties)

\* sorted(posts, key=date)[::-1]: descending, the records of one date reversed
SortByDateReversed(ps) == SortDesc(ps, TRUE)

\* posts.sort(key=lambda p: p["date"], reverse=True): descending and stable
SortByDate(ps) == SortDesc(ps, FALSE)

\* lines 293-294, and the two directory listings of lines 297-298 and 325-326
GpCall ==
    /\ posts' = <<>>
    /\ seen_slugs' = {}
    /\ md_left' = IF posts_dir.exists THEN posts_dir.files ELSE {}
    /\ html_left' = IF thoughts_dir.exists THEN thoughts_dir.files ELSE {}
    /\ gp_pc' = "scan"
    /\ gp_ret' = <<>>

\* lines 298-322: one markdown file, in whatever order glob yields them
GpScanMarkdown ==
    /\ gp_pc = "scan"
    /\ \E f \in md_left :
          /\ posts' = Append(posts, MdRecord(f))
          /\ seen_slugs' = seen_slugs \cup {get_slug_from_filename(f.name)}
          /\ md_left' = md_left \ {f}
    /\ UNCHANGED <<html_left, gp_pc, gp_ret, mdVars, fmVars, dirVars, runVars>>

\* lines 326-331: one HTML file whose slug is new
GpScanHtml ==
    /\ gp_pc = "scan"
    /\ md_left = {}
    /\ \E h \in html_left :
          /\ h.stem \notin seen_slugs
          /\ posts' = Append(posts, extract_metadata_from_html(h))
          /\ seen_slugs' = seen_slugs \cup {h.stem}
          /\ html_left' = html_left \ {h}
    /\ UNCHANGED <<md_left, gp_pc, gp_ret, mdVars, fmVars, dirVars, runVars>>

\* lines 326-328: one HTML file whose slug was seen
GpSkipHtml ==
    /\ gp_pc = "scan"
    /\ md_left = {}
    /\ \E h \in html_left :
          /\ h.stem \in seen_slugs
          /\ html_left' = html_left \ {h}
    /\ UNCHANGED <<posts, seen_slugs, md_left, gp_pc, gp_ret, mdVars, fmVars, dirVars, runVars>>

\* lines 334-335; posts keeps the order of the scan, gp_ret is the list returned
GpReturn ==
    /\ gp_pc = "scan"
    /\ md_left = {}
    /\ html_left = {}
    /\ gp_ret' = SortByDate(posts)
    /\ gp_pc' = "done"
    /\ UNCHANGED <<posts, seen_slugs, md_left, html_left, mdVars, fmVars, dirVars, runVars>>

\* the slugs the files of the two directories yield
MdSlugs == { get_slug_from_filename(f.name) : f \in posts_dir.files }
AllSlugs == MdSlugs \cup { h.stem : h \in thoughts_dir.files }

\* C1: the list holds exactly one record for each slug, the markdown one
\* whenever a markdown file yields the slug; no two records share a slug.
C1_OneRecordPerSlug ==
    gp_pc = "done" =>
        /\ \A a, b \in 1..Len(gp_ret) : gp_ret[a].slug = gp_ret[b].slug => a = b
        /\ \A sl \in AllSlugs : \E a \in 1..Len(gp_ret) : gp_ret[a].slug = sl
        /\ \A a \in 1..Len(gp_ret) :
              /\ gp_ret[a].slug \in AllSlugs
              /\ gp_ret[a].slug \in MdSlugs => gp_ret[a].source = "markdown"

\* the place of a record in the scan
ScanPos(r) == CHOOSE k \in 1..Len(posts) : posts[k] = r

\* C2: the list is in descending order of date, records of one date keep the
\* order of the scan, and so the markdown records of a date precede its HTML
\* records.
C2_SortedStable ==
    gp_pc = "done" =>
        /\ Len(gp_ret) = Len(posts)
        /\ \A k \in 1..Len(posts) : \E a \in 1..Len(gp_ret) : gp_ret[a] = posts[k]
        /\ \A a, b \in 1..Len(gp_ret) :
              a < b =>
                /\ ~StrLess(gp_ret[a].date, gp_ret[b].date)
                /\ gp_ret[a].date = gp_ret[b].date =>
                      /\ ScanPos(gp_ret[a]) < ScanPos(gp_ret[b])
                      /\ ~(gp_ret[a].source = "html" /\ gp_ret[b].source = "markdown")

\* a markdown and an HTML record of each of two dates, scanned in another order
C2_Witness ==
    /\ gp_pc = "done"
    /\ Len(gp_ret) = 4
    /\ gp_ret[1].date = D2 /\ gp_ret[1].source = "markdown"
    /\ gp_ret[2].date = D2 /\ gp_ret[2].source = "html"
    /\ gp_ret[3].date = SENTINEL /\ gp_ret[3].source = "markdown"
    /\ gp_ret[4].date = SENTINEL /\ gp_ret[4].source = "html"
    /\ posts[1].date = SENTINEL
    /\ posts[3].date = SENTINEL

----------------------------------------------------------------------------
(* One run of the command: main, publish_post, rebuild_all, update_index, *)
(* generate_rss                                                           *)

NoName == [prefix |-> <<>>, rest |-> <<>>]

\* sys.argv[1:]: nothing, --rss, --rebuild, or a path with or without --substack;
\* the paths are posts/<name>.md and posts/x.txt
Argvs ==
    { [opt |-> o, name |-> NoName, ext |-> "", substack |-> FALSE] :
          o \in {"none", "--rss", "--rebuild"} }
    \cup [opt : {"path"}, name : MdNames, ext : {".md"}, substack : BOOLEAN]
    \cup [opt : {"path"}, name : {[prefix |-> <<>>, rest |-> <<"x">>]},
          ext : {".txt"}, substack : BOOLEAN]

\* datetime.now(), as a date
Todays == {D2, <<2026, 11, 3>>}

IndexFiles ==
    { [exists |-> FALSE, has_list |-> FALSE, entries |-> <<>>],
      [exists |-> TRUE, has_list |-> FALSE, entries |-> <<>>],
      [exists |-> TRUE, has_list |-> TRUE, entries |-> <<>>] }

\* md_file.exists(): a markdown path exists when posts/ holds it; posts/x.txt exists
Exists(a) ==
    a.ext = ".txt" \/ \E f \in posts_dir.files : f.name = a.name

FileAt(name) == CHOOSE f \in posts_dir.files : f.name = name

Min(a, b) == IF a < b THEN a ELSE b

\* strptime(date_str, "%Y-%m-%d").strftime(RFC 822), or date_str on ValueError
format_date_rss(date_str) == [rfc822 |-> Len(date_str) = 3, text |-> date_str]

\* lines 344-366: the index after update_index(ps)
update_index(ps) ==
    IF index_file.exists /\ index_file.has_list
    THEN [index_file EXCEPT !.entries =
             [k \in 1..Len(ps) |->
                 [ date  |-> format_date_display(ps[k].date),
                   slug  |-> ps[k].slug,
                   title |-> ps[k].title ]]]
    ELSE index_file

\* lines 372-397: the feed generate_rss(ps) writes
generate_rss(ps) ==
    [ items |-> [k \in 1..Min(FeedLimit, Len(ps)) |->
                    [ title       |-> ps[k].title,
                      link        |-> ps[k].slug,
                      pubDate     |-> format_date_rss(ps[k].date),
                      description |-> ps[k].description ]],
      lastBuildDate |-> today ]

IndexPath == [file |-> "index.html", slug |-> <<>>]
FeedPath == [file |-> "feed.xml", slug |-> <<>>]
PagePath(slug) == [file |-> "thoughts", slug |-> slug]

\* lines 338-367 and 370-398, as rebuild_all and main call them one after the other
UpdateIndexAndFeed(ps) ==
    /\ index_file' = update_index(ps)
    /\ feed_file' = generate_rss(ps)
    /\ written' = written \cup {FeedPath}
                     \cup (IF update_index(ps) # index_file THEN {IndexPath} ELSE {})

Exit(status, msg) ==
    /\ run_pc' = "exit"
    /\ exit_status' = status
    /\ stdout' = Append(stdout, msg)

\* the page publish_post writes for the file f (lines 198-201 and 239-248)
PageOf(f) ==
    [ stem |-> get_slug_from_filename(f.name),
      meta |-> format_date_display(Get(f.fm, "date", today)) ]

WritePage(f) ==
    /\ thoughts_dir' =
          [thoughts_dir EXCEPT
              !.files = { h \in @ : h.stem # PageOf(f).stem } \cup {PageOf(f)}]
    /\ written' = written \cup {PagePath(PageOf(f).stem)}
    /\ published' = published \cup
          {[ file         |-> [dir |-> "posts", name |-> f.name],
             date         |-> Get(f.fm, "date", today),
             date_display |-> PageOf(f).meta ]}

\* publish_post with the page written before the template is looked for
publish_post_writes_first(f, substack, next_pc) ==
    IF substack
    THEN /\ stdout' = Append(stdout, "SUBSTACK HTML")
         /\ run_pc' = next_pc
         /\ UNCHANGED <<thoughts_dir, written, published, exit_status>>
    ELSE /\ WritePage(f)
         /\ IF ~template_exists
            THEN Exit(1, "Error: Template not found")
            ELSE /\ stdout' = Append(stdout, "Published")
                 /\ run_pc' = next_pc
                 /\ UNCHANGED exit_status

\* publish_post(md_file, substack), lines 192-257; the caller goes on at next_pc
publish_post(f, substack, next_pc) ==
    IF substack
    THEN /\ stdout' = Append(stdout, "SUBSTACK HTML")
         /\ run_pc' = next_pc
         /\ UNCHANGED <<thoughts_dir, written, published, exit_status>>
    ELSE IF ~template_exists
    THEN /\ Exit(1, "Error: Template not found")
         /\ UNCHANGED <<thoughts_dir, written, published>>
    ELSE /\ WritePage(f)
         /\ stdout' = Append(stdout, "Published")
         /\ run_pc' = next_pc
         /\ UNCHANGED exit_status

runConfig == <<argv, template_exists, today, fs0>>

\* lines 417-419
MainUsage ==
    /\ run_pc = "main"
    /\ argv.opt = "none"
    /\ Exit(1, "usage")
    /\ UNCHANGED <<mdVars, fmVars, dirVars, gpVars, runConfig,
                   index_file, feed_file, rb_k, published, written>>

\* lines 423-424: get_all_posts is called
MainRss ==
    /\ run_pc = "main"
    /\ argv.opt = "--rss"
    /\ GpCall
    /\ run_pc' = "rss"
    /\ UNCHANGED <<mdVars, fmVars, dirVars, runConfig, index_file, feed_file,
                   exit_status, stdout, rb_k, published, written>>

\* lines 425-426
RssGenerate ==
    /\ run_pc = "rss"
    /\ gp_pc = "done"
    /\ feed_file' = generate_rss(gp_ret)
    /\ written' = written \cup {FeedPath}
    /\ Exit(0, "Generated")
    /\ UNCHANGED <<mdVars, fmVars, dirVars, gpVars, runConfig, index_file,
                   rb_k, published>>

\* lines 428-429 and 403: get_all_posts is called
MainRebuild ==
    /\ run_pc = "main"
    /\ argv.opt = "--rebuild"
    /\ GpCall
    /\ run_pc' = "rebuild"
    /\ UNCHANGED <<mdVars, fmVars, dirVars, runConfig, index_file, feed_file,
                   exit_status, stdout, rb_k, published, written>>

\* line 406
MarkdownPosts == SelectSeq(gp_ret, LAMBDA p : p.source = "markdown")

\* lines 407-408: one pass of the loop
RebuildPublish ==
    /\ run_pc = "rebuild"
    /\ gp_pc = "done"
    /\ rb_k < Len(MarkdownPosts)
    /\ publish_post(FileAt(MarkdownPosts[rb_k + 1].file.name), FALSE, "rebuild")
    /\ rb_k' = rb_k + 1
    /\ UNCHANGED <<mdVars, fmVars, posts_dir, gpVars, runConfig, index_file, feed_file>>

\* lines 410-413
RebuildFinish ==
    /\ run_pc = "rebuild"
    /\ gp_pc = "done"
    /\ rb_k = Len(MarkdownPosts)
    /\ UpdateIndexAndFeed(gp_ret)
    /\ Exit(0, "Rebuilt")
    /\ UNCHANGED <<mdVars, fmVars, dirVars, gpVars, runConfig, rb_k, published>>

\* lines 433-436
MainNotFound ==
    /\ run_pc = "main"
    /\ argv.opt = "path"
    /\ ~Exists(argv)
    /\ Exit(1, "Error: File not found")
    /\ UNCHANGED <<mdVars, fmVars, dirVars, gpVars, runConfig,
                   index_file, feed_file, rb_k, published, written>>

\* lines 438-440
MainBadSuffix ==
    /\ run_pc = "main"
    /\ argv.opt = "path"
    /\ Exists(argv)
    /\ argv.ext # ".md"
    /\ Exit(1, "Error: Expected markdown file")
    /\ UNCHANGED <<mdVars, fmVars, dirVars, gpVars, runConfig,
                   index_file, feed_file, rb_k, published, written>>

\* lines 442-445
MainPublish ==
    /\ run_pc = "main"
    /\ argv.opt = "path"
    /\ Exists(argv)
    /\ argv.ext = ".md"
    /\ publish_post(FileAt(argv.name), argv.substack, "published")
    /\ UNCHANGED <<mdVars, fmVars, posts_dir, gpVars, runConfig,
                   index_file, feed_file, rb_k>>

\* lines 447 and 453, with --substack
MainDoneSubstack ==
    /\ run_pc = "published"
    /\ argv.substack
    /\ Exit(0, "Done!")
    /\ UNCHANGED <<mdVars, fmVars, dirVars, gpVars, runConfig,
                   index_file, feed_file, rb_k, published, written>>

\* lines 447-449: get_all_posts is called
MainListPosts ==
    /\ run_pc = "published"
    /\ ~argv.substack
    /\ GpCall
    /\ run_pc' = "update"
    /\ UNCHANGED <<mdVars, fmVars, dirVars, runConfig, index_file, feed_file,
                   exit_status, stdout, rb_k, published, written>>

\* lines 450-453
MainUpdate ==
    /\ run_pc = "update"
    /\ gp_pc = "done"
    /\ UpdateIndexAndFeed(gp_ret)
    /\ Exit(0, "Done!")
    /\ UNCHANGED <<mdVars, fmVars, dirVars, gpVars, runConfig, rb_k, published>>

\* the inputs the claim calls fatal
C7_FatalInput ==
    \/ /\ argv.opt = "path"
       /\ \/ ~Exists(argv)
          \/ argv.ext # ".md"
          \/ (~argv.substack /\ ~template_exists)
    \/ /\ argv.opt = "--rebuild"
       /\ ~template_exists
       /\ posts_dir.files # {}

C7_NothingWritten ==
    written = {} /\ <<thoughts_dir, index_file, feed_file>> = fs0

\* C7: a run with a fatal input error writes nothing, and ends with a nonzero
\* status after an error message; no run that ends with a nonzero status has
\* written anything.
C7_FatalBeforeWrite ==
    /\ (run_pc # "idle" /\ C7_FatalInput) =>
          /\ C7_NothingWritten
          /\ run_pc = "exit" =>
                /\ exit_status # 0
                /\ stdout[Len(stdout)] \in
                      { "Error: File not found", "Error: Expected markdown file",
                        "Error: Template not found" }
    /\ (run_pc = "exit" /\ exit_status # 0) => C7_NothingWritten

\* --rebuild of a site with a post and a page but no template has ended
C7_Witness ==
    /\ run_pc = "exit"
    /\ exit_status = 1
    /\ argv.opt = "--rebuild"
    /\ ~template_exists
    /\ posts_dir.files # {}
    /\ thoughts_dir.files # {}
    /\ stdout[Len(stdout)] = "Error: Template not found"

\* C9: after a successful run, the date a page written in the run shows is the
\* date the canonical list holds for the markdown file it was written from.
C9_SameDate ==
    (run_pc = "exit" /\ exit_status = 0 /\ gp_pc = "done") =>
        \A info \in published :
            \A k \in 1..Len(gp_ret) :
                gp_ret[k].file = info.file
                    => info.date_display = format_date_display(gp_ret[k].date)

----------------------------------------------------------------------------
(* The specifications *)

\* markdown_to_html on every body
Init ==
    /\ lines \in Bodies
    /\ i = 0
    /\ html_lines = <<>>
    /\ in_list = FALSE
    /\ in_code = FALSE
    /\ code_block = <<>>
    /\ md_pc = "loop"
    /\ md_ret = <<>>
    /\ fm_lines = <<>> /\ fm_k = 0 /\ frontmatter = <<>> /\ fm_pc = "idle"
    /\ posts_dir = [exists |-> FALSE, files |-> {}]
    /\ thoughts_dir = [exists |-> FALSE, files |-> {}]
    /\ posts = <<>> /\ seen_slugs = {} /\ md_left = {} /\ html_left = {}
    /\ gp_pc = "idle" /\ gp_ret = <<>>
    /\ argv = [opt |-> "none", name |-> [prefix |-> <<>>, rest |-> <<>>],
                ext |-> "", substack |-> FALSE]
    /\ template_exists = FALSE
    /\ index_file = [exists |-> FALSE, has_list |-> FALSE, entries |-> <<>>]
    /\ feed_file = [items |-> <<>>, lastBuildDate |-> <<>>]
    /\ today = <<>>
    /\ run_pc = "idle" /\ exit_status = 0 /\ stdout = <<>> /\ rb_k = 0
    /\ published = {} /\ written = {}
    /\ fs0 = <<thoughts_dir, index_file, feed_file>>

Next == MdNext

Spec == Init /\ [][Next]_vars

\* parse_frontmatter on every header
InitFrontmatter ==
    /\ lines = <<>> /\ i = 0 /\ html_lines = <<>> /\ in_list = FALSE
    /\ in_code = FALSE /\ code_block = <<>> /\ md_pc = "idle" /\ md_ret = <<>>
    /\ fm_lines \in Headers
    /\ fm_k = 0
    /\ frontmatter = <<>>
    /\ fm_pc = "loop"
    /\ posts_dir = [exists |-> FALSE, files |-> {}]
    /\ thoughts_dir = [exists |-> FALSE, files |-> {}]
    /\ posts = <<>> /\ seen_slugs = {} /\ md_left = {} /\ html_left = {}
    /\ gp_pc = "idle" /\ gp_ret = <<>>
    /\ argv = [opt |-> "none", name |-> [prefix |-> <<>>, rest |-> <<>>],
                ext |-> "", substack |-> FALSE]
    /\ template_exists = FALSE
    /\ index_file = [exists |-> FALSE, has_list |-> FALSE, entries |-> <<>>]
    /\ feed_file = [items |-> <<>>, lastBuildDate |-> <<>>]
    /\ today = <<>>
    /\ run_pc = "idle" /\ exit_status = 0 /\ stdout = <<>> /\ rb_k = 0
    /\ published = {} /\ written = {}
    /\ fs0 = <<thoughts_dir, index_file, feed_file>>

SpecFrontmatter == InitFrontmatter /\ [][FmNext]_vars

\* get_all_posts on every content of the two directories
InitPosts ==
    /\ lines = <<>> /\ i = 0 /\ html_lines = <<>> /\ in_list = FALSE
    /\ in_code = FALSE /\ code_block = <<>> /\ md_pc = "idle" /\ md_ret = <<>>
    /\ fm_lines = <<>> /\ fm_k = 0 /\ frontmatter = <<>> /\ fm_pc = "idle"
    /\ posts_dir \in { [exists |-> FALSE, files |-> {}] }
                       \cup { [exists |-> TRUE, files |-> S] : S \in MdDirs(MaxMd) }
    /\ thoughts_dir \in { [exists |-> FALSE, files |-> {}] }
                          \cup { [exists |-> TRUE, files |-> S] : S \in HtmlDirs(MaxHtml) }
    /\ posts = <<>>
    /\ seen_slugs = {}
    /\ md_left = posts_dir.files
    /\ html_left = thoughts_dir.files
    /\ gp_pc = "scan"
    /\ gp_ret = <<>>
    /\ argv = [opt |-> "none", name |-> [prefix |-> <<>>, rest |-> <<>>],
                ext |-> "", substack |-> FALSE]
    /\ template_exists = FALSE
    /\ index_file = [exists |-> FALSE, has_list |-> FALSE, entries |-> <<>>]
    /\ feed_file = [items |-> <<>>, lastBuildDate |-> <<>>]
    /\ today = <<>>
    /\ run_pc = "idle" /\ exit_status = 0 /\ stdout = <<>> /\ rb_k = 0
    /\ published = {} /\ written = {}
    /\ fs0 = <<thoughts_dir, index_file, feed_file>>

NextPosts == GpScanMarkdown \/ GpScanHtml \/ GpSkipHtml \/ GpReturn

SpecPosts == InitPosts /\ [][NextPosts]_vars

\* one run of the command on every site and every command line
InitRun ==
    /\ lines = <<>> /\ i = 0 /\ html_lines = <<>> /\ in_list = FALSE
    /\ in_code = FALSE /\ code_block = <<>> /\ md_pc = "idle" /\ md_ret = <<>>
    /\ fm_lines = <<>> /\ fm_k = 0 /\ frontmatter = <<>> /\ fm_pc = "idle"
    /\ posts_dir \in { [exists |-> TRUE, files |-> S] : S \in MdDirs(RunMaxMd) }
    /\ thoughts_dir \in { [exists |-> TRUE, files |-> S] : S \in HtmlDirs(RunMaxHtml) }
    /\ posts = <<>> /\ seen_slugs = {} /\ md_left = {} /\ html_left = {}
    /\ gp_pc = "idle" /\ gp_ret = <<>>
    /\ argv \in Argvs
    /\ template_exists \in BOOLEAN
    /\ index_file \in IndexFiles
    /\ feed_file = [items |-> <<>>, lastBuildDate |-> <<>>]
    /\ today \in Todays
    /\ run_pc = "main" /\ exit_status = 0 /\ stdout = <<>> /\ rb_k = 0
    /\ published = {} /\ written = {}
    /\ fs0 = <<thoughts_dir, index_file, feed_file>>

NextRun ==
    \/ MainUsage \/ MainRss \/ RssGenerate \/ MainRebuild \/ RebuildPublish
    \/ RebuildFinish \/ MainNotFound \/ MainBadSuffix \/ MainPublish
    \/ MainDoneSubstack \/ MainListPosts \/ MainUpdate
    \/ GpScanMarkdown \/ GpScanHtml \/ GpSkipHtml \/ GpReturn

SpecRun == InitRun /\ [][NextRun]_vars

====
